---------------------------- MODULE Spec2Model ----------------------------
(***************************************************************************)
(* Model of MISTRALOCR.py: the parsing of the chat model's reply inside    *)
(* extract_info_with_llm and the rendering of the extracted record by the  *)
(* Streamlit script (specification Spec), and the whole run of the script  *)
(* from the file uploader on, with the cached upload, signed-URL and OCR   *)
(* calls, over the successive runs of one server process (SpecRun).        *)
(*                                                                         *)
(* A text is a sequence of symbols.  The symbols that matter to the code   *)
(* are single characters: the backtick, the letters j s o n of the fence   *)
(* marker, the JSON punctuation, the double quote, the digits 0 and 1, the *)
(* space and the newline.  Any other symbol ("Conforme", "lab_name",       *)
(* "null", "Thanks", ...) stands for that run of letters; none of them     *)
(* holds a backtick, a quote, punctuation or white space.  TLA+ strings    *)
(* cannot hold a backtick, so the symbol BT stands for that character.     *)
(***************************************************************************)
EXTENDS Integers, Sequences, FiniteSets, TLC

VARIABLES pc, wrap, obj, content, response_content, json_string,
          extracted_data, log, st_text, info_df, results_df, st_json,
          download_button,
          uploaded_file, file_id, signed_url, ocr_result,
          upload_cache, url_cache, ocr_cache, stages

vars == <<pc, wrap, obj, content, response_content, json_string,
          extracted_data, log, st_text, info_df, results_df, st_json,
          download_button,
          uploaded_file, file_id, signed_url, ocr_result,
          upload_cache, url_cache, ocr_cache, stages>>

\* Bounds of the model.
MaxRows == 2
MaxChunks == 3
MaxPages == 2

---------------------------------------------------------------------------
\* Python values

\* Python's None for a variable that otherwise holds a value v, held as <<v>>.
None == <<>>

Some(v) == <<v>>

Q == "\""

\* the backtick character
BT == "<backtick>"

NL == "\n"

SP == " "

\* JSON values as json.loads builds them.
JNull == [t |-> "null"]

JBool(b) == [t |-> "bool", b |-> b]

JNum(digits) == [t |-> "num", n |-> digits]

JStr(symbols) == [t |-> "str", s |-> symbols]

JArr(elems) == [t |-> "arr", a |-> elems]

\* A dict is the sequence of its <<key, value>> pairs in insertion order.
JObj(pairs) == [t |-> "obj", o |-> pairs]

IsDict(v) == v.t = "obj"

IsList(v) == v.t = "arr"

\* Python truthiness of a value, as `if analysis_results:` applies it.
Truthy(v) ==
    CASE v.t = "null" -> FALSE
      [] v.t = "bool" -> v.b
      [] v.t = "num"  -> \E i \in 1..Len(v.n) : v.n[i] # "0"
      [] v.t = "str"  -> v.s # <<>>
      [] v.t = "arr"  -> v.a # <<>>
      [] v.t = "obj"  -> v.o # <<>>

\* k in d; a value that is not a dict has no key
HasKey(d, k) == IsDict(d) /\ \E i \in 1..Len(d.o) : d.o[i][1] = k

\* dict.get(k, default)
Get(d, k, default) ==
    IF HasKey(d, k)
    THEN d.o[CHOOSE i \in 1..Len(d.o) : d.o[i][1] = k][2]
    ELSE default

\* d[k] = v on the pair sequence: a repeated key keeps its place and takes
\* the last value.
Put(pairs, k, v) ==
    IF \E i \in 1..Len(pairs) : pairs[i][1] = k
    THEN [i \in 1..Len(pairs) |-> IF pairs[i][1] = k THEN <<k, v>> ELSE pairs[i]]
    ELSE Append(pairs, <<k, v>>)

---------------------------------------------------------------------------
\* str methods

IsWs(c) == c \in {SP, NL}

RECURSIVE SkipWs(_, _)
\* the index of the first symbol at or after i that is not white space
SkipWs(t, i) == IF i <= Len(t) /\ IsWs(t[i]) THEN SkipWs(t, i + 1) ELSE i

RECURSIVE SkipWsBack(_, _)
SkipWsBack(t, i) == IF i >= 1 /\ IsWs(t[i]) THEN SkipWsBack(t, i - 1) ELSE i

\* str.strip()
Strip(t) == SubSeq(t, SkipWs(t, 1), SkipWsBack(t, Len(t)))

\* t[a:b] with 0 <= a, b <= len(t) (Python's offsets)
Slice(t, a, b) == SubSeq(t, a + 1, b)

\* pat occurs in t at offset k
OccursAt(t, pat, k) ==
    /\ k + Len(pat) <= Len(t)
    /\ \A i \in 1..Len(pat) : t[k + i] = pat[i]

\* str.find(pat, start): the lowest offset >= start where pat occurs, or -1
Find(t, pat, start) ==
    LET hits == {k \in start..(Len(t) - Len(pat)) : OccursAt(t, pat, k)}
    IN  IF hits = {} THEN -1
        ELSE CHOOSE k \in hits : \A h \in hits : k <= h

StartsWith(t, pat) == OccursAt(t, pat, 0)

EndsWith(t, pat) == Len(pat) <= Len(t) /\ OccursAt(t, pat, Len(t) - Len(pat))

\* pat in t
Contains(t, pat) == Find(t, pat, 0) # -1

---------------------------------------------------------------------------
\* json.dumps and json.loads

Digits == {"0", "1"}

RECURSIVE Dumps(_), DumpsElems(_, _), DumpsPairs(_, _)
\* json.dumps(v) with the default separators ", " and ": "
Dumps(v) ==
    CASE v.t = "null" -> <<"null">>
      [] v.t = "bool" -> IF v.b THEN <<"true">> ELSE <<"false">>
      [] v.t = "num"  -> v.n
      [] v.t = "str"  -> <<Q>> \o v.s \o <<Q>>
      [] v.t = "arr"  -> <<"[">> \o DumpsElems(v.a, 1) \o <<"]">>
      [] v.t = "obj"  -> <<"{">> \o DumpsPairs(v.o, 1) \o <<"}">>

DumpsElems(a, i) ==
    IF i > Len(a) THEN <<>>
    ELSE Dumps(a[i]) \o (IF i < Len(a) THEN <<",", SP>> ELSE <<>>)
         \o DumpsElems(a, i + 1)

DumpsPairs(o, i) ==
    IF i > Len(o) THEN <<>>
    ELSE <<Q>> \o o[i][1] \o <<Q, ":", SP>> \o Dumps(o[i][2])
         \o (IF i < Len(o) THEN <<",", SP>> ELSE <<>>)
         \o DumpsPairs(o, i + 1)

\* A scan that failed, or that read value v and stopped before index i.
ScanFail == [ok |-> FALSE, val |-> JNull, next |-> 0]

ScanOk(v, i) == [ok |-> TRUE, val |-> v, next |-> i]

RECURSIVE StringEnd(_, _)
\* the index of the quote closing a string whose content starts at j, or 0:
\* a raw control character (the newline) is not allowed inside a string
StringEnd(t, j) ==
    IF j > Len(t) THEN 0
    ELSE IF t[j] = Q THEN j
    ELSE IF t[j] = NL THEN 0
    ELSE StringEnd(t, j + 1)

RECURSIVE NumberEnd(_, _)
NumberEnd(t, j) == IF j <= Len(t) /\ t[j] \in Digits THEN NumberEnd(t, j + 1) ELSE j

RECURSIVE ScanValue(_, _), ScanMembers(_, _, _), ScanElems(_, _, _)
\* the decoder's scan_once at index i
ScanValue(t, i) ==
    IF i > Len(t) THEN ScanFail
    ELSE CASE t[i] = Q ->
                LET e == StringEnd(t, i + 1)
                IN  IF e = 0 THEN ScanFail
                    ELSE ScanOk(JStr(SubSeq(t, i + 1, e - 1)), e + 1)
           [] t[i] = "{" ->
                LET j == SkipWs(t, i + 1)
                IN  IF j <= Len(t) /\ t[j] = "}" THEN ScanOk(JObj(<<>>), j + 1)
                    ELSE ScanMembers(t, j, <<>>)
           [] t[i] = "[" ->
                LET j == SkipWs(t, i + 1)
                IN  IF j <= Len(t) /\ t[j] = "]" THEN ScanOk(JArr(<<>>), j + 1)
                    ELSE ScanElems(t, j, <<>>)
           [] t[i] = "null"  -> ScanOk(JNull, i + 1)
           [] t[i] = "true"  -> ScanOk(JBool(TRUE), i + 1)
           [] t[i] = "false" -> ScanOk(JBool(FALSE), i + 1)
           [] t[i] = "0"     -> ScanOk(JNum(<<"0">>), i + 1)
           [] t[i] = "1"     ->
                LET e == NumberEnd(t, i)
                IN  ScanOk(JNum(SubSeq(t, i, e - 1)), e)
           [] OTHER -> ScanFail

\* the members of an object from the quote of the next key on
ScanMembers(t, i, acc) ==
    IF i > Len(t) \/ t[i] # Q THEN ScanFail
    ELSE LET e == StringEnd(t, i + 1)
         IN  IF e = 0 THEN ScanFail
             ELSE LET key == SubSeq(t, i + 1, e - 1)
                      c   == SkipWs(t, e + 1)
                  IN  IF c > Len(t) \/ t[c] # ":" THEN ScanFail
                      ELSE LET r == ScanValue(t, SkipWs(t, c + 1))
                           IN  IF ~r.ok THEN ScanFail
                               ELSE LET acc2 == Put(acc, key, r.val)
                                        d    == SkipWs(t, r.next)
                                    IN  IF d > Len(t) THEN ScanFail
                                        ELSE IF t[d] = "}" THEN ScanOk(JObj(acc2), d + 1)
                                        ELSE IF t[d] = ","
                                             THEN ScanMembers(t, SkipWs(t, d + 1), acc2)
                                        ELSE ScanFail

\* the elements of an array from the next element on
ScanElems(t, i, acc) ==
    LET r == ScanValue(t, i)
    IN  IF ~r.ok THEN ScanFail
        ELSE LET acc2 == Append(acc, r.val)
                 d    == SkipWs(t, r.next)
             IN  IF d > Len(t) THEN ScanFail
                 ELSE IF t[d] = "]" THEN ScanOk(JArr(acc2), d + 1)
                 ELSE IF t[d] = "," THEN ScanElems(t, SkipWs(t, d + 1), acc2)
                 ELSE ScanFail

\* json.loads(t): ok is FALSE where it raises JSONDecodeError
Loads(t) ==
    LET r == ScanValue(t, SkipWs(t, 1))
    IN  IF r.ok /\ SkipWs(t, r.next) = Len(t) + 1
        THEN [ok |-> TRUE, val |-> r.val]
        ELSE [ok |-> FALSE, val |-> JNull]

---------------------------------------------------------------------------
\* The schema and the replies of the chat model

\* the opening marker of a fenced block
Marker == <<BT, BT, BT, "j", "s", "o", "n">>

\* the closing marker
Ticks == <<BT, BT, BT>>

\* a key or a string value of one word
K(w) == <<w>>

Str(w) == JStr(<<w>>)

\* the sections of json_schema and their leaves
report_info_keys == <<"lab_name", "report_id", "issue_date", "validation_date",
                      "validator_name">>

client_info_keys == <<"client_name", "client_address", "client_id">>

sample_info_keys == <<"product_name", "lot_number", "sample_id", "date_received",
                      "date_analyzed", "date_collected", "product_format",
                      "best_before_date", "supplier", "ean_code">>

display_cols == <<"parameter", "result", "unit", "specification", "uncertainty",
                  "method">>

SeqsUpTo(S, n) == UNION {[1..k -> S] : k \in 0..n}

RECURSIVE Concat(_, _)
Concat(ss, i) == IF i > Len(ss) THEN <<>> ELSE ss[i] \o Concat(ss, i + 1)

\* a key left out, or supplied with one of the values vs
Opt(k, vs) == {<<>>} \cup {<< <<K(k), v>> >> : v \in vs}

\* rows of a results table: empty, in schema order, and out of order with a
\* null and a key the schema does not have
RowChoices ==
    { JObj(<<>>),
      JObj(<< <<K("parameter"), Str("Humidite")>>, <<K("result"), Str("59.9")>>,
              <<K("unit"), Str("g/100g")>> >>),
      JObj(<< <<K("result"), JNull>>, <<K("note"), Str("n")>>,
              <<K("parameter"), Str("Proteines")>> >>) }

ElemChoices == RowChoices \cup {Str("x")}

NonListValues ==
    { JNull, Str("not-a-list"), JStr(<<>>), JNum(<<"0">>), JNum(<<"1">>),
      JBool(FALSE), JBool(TRUE), JObj(<<>>),
      JObj(<< <<K("parameter"), Str("Humidite")>> >>) }

ARValues == {JArr(s) : s \in SeqsUpTo(ElemChoices, MaxRows)} \cup NonListValues

ReportChoices ==
    { JObj(<<>>),
      JObj(<< <<K("lab_name"), Str("Labo")>> >>),
      JObj(<< <<K("report_id"), JNull>>, <<K("lab_name"), Str("Labo")>> >>),
      JNull,
      Str("Labo") }

ClientChoices == { JObj(<< <<K("client_name"), Str("Client")>> >>) }

SampleChoices ==
    { JObj(<< <<K("product_name"), Str("Produit")>>, <<K("ean_code"), JNull>> >>) }

\* objects that vary analysis_results
ResultObjects ==
    { JObj(ar \o c) :
        ar \in Opt("analysis_results", ARValues),
        c \in Opt("conclusion", {Str("Conforme"), JStr(Ticks)}) }

\* objects that vary the sections, the conclusion and a key outside the schema
SectionObjects ==
    { JObj(r \o c \o s \o ar \o k \o x) :
        r \in Opt("report_info", ReportChoices),
        c \in Opt("client_info", ClientChoices),
        s \in Opt("sample_info", SampleChoices),
        ar \in Opt("analysis_results",
                   {JArr(<<JObj(<< <<K("parameter"), Str("Humidite")>> >>)>>)}),
        k \in Opt("conclusion", {JNull, Str("Conforme")}),
        x \in Opt("notes", {Str("n")}) }

\* objects with a leaf that is not "string or null": a number, a boolean, a
\* nested object, and the empty string
LeafObjects ==
    { JObj(<< <<K("conclusion"), JNum(<<"1">>)>> >>),
      JObj(<< <<K("conclusion"), JStr(<<>>)>> >>),
      JObj(<< <<K("report_info"), JObj(<< <<K("lab_name"), JBool(TRUE)>> >>)>> >>),
      JObj(<< <<K("sample_info"),
                JObj(<< <<K("product_name"), JObj(<< <<K("fr"), Str("Produit")>> >>)>> >>)>> >>),
      JObj(<< <<K("analysis_results"),
                JArr(<< JObj(<< <<K("parameter"), Str("Humidite")>>,
                                <<K("result"), JNum(<<"1", "0">>)>> >>) >>)>> >>) }

Objects == ResultObjects \cup SectionObjects \cup LeafObjects

Wrappers == {"direct", "padded", "fenced", "lead", "lead_trail", "trail", "fence4"}

Fenced(d) == Marker \o <<NL>> \o d \o <<NL>> \o Ticks

\* the ways the chat model lays out the JSON text d in its reply
Wrap(w, d) ==
    CASE w = "direct"     -> d
      [] w = "padded"     -> <<SP, NL>> \o d \o <<NL>>
      [] w = "fenced"     -> Fenced(d)
      [] w = "lead"       -> <<"Here", ":", NL>> \o Fenced(d)
      [] w = "lead_trail" -> <<"Here", ":", NL>> \o Fenced(d) \o <<NL, "Thanks">>
      [] w = "trail"      -> Fenced(d) \o <<NL, "Thanks">>
      [] w = "fence4"     -> <<BT>> \o Fenced(d) \o <<BT>>

Chunks == {Marker, Ticks, <<"{", "}">>, <<"[", "]">>, <<"null">>, <<"x">>, <<NL>>}

\* replies pieced together from at most MaxChunks chunks
ChunkTexts == {Concat(ss, 1) : ss \in SeqsUpTo(Chunks, MaxChunks)}

\* a fenced block whose content is not JSON
NotValidJson == <<"{", "not", SP, "valid", SP, "j", "s", "o", "n">>

ExampleTexts ==
    { Marker \o <<NL>> \o NotValidJson \o <<NL>> \o Ticks,
      <<"[", Q, "a", Q, ",", Q, "b", Q, "]">>,
      Fenced(<<"[", Q, "a", Q, ",", Q, "b", Q, "]">>),
      <<"Here", ":", NL>> \o Marker \o <<NL, "{", "}">>,
      <<Q, "Conforme", Q>>,
      <<"1", "0">>,
      <<"true">> }

RawTexts == ChunkTexts \cup ExampleTexts

---------------------------------------------------------------------------
\* extract_info_with_llm, from the reply on

\* FenceCandidate without the removal of the closing marker
FenceCandidateKeepsClosing(rc) ==
    IF StartsWith(rc, Marker)
    THEN Some(Strip(Slice(rc, Len(Marker), Len(rc))))
    ELSE IF Contains(rc, Marker)
    THEN LET start == Find(rc, Marker, 0) + Len(Marker)
             end   == Find(rc, Ticks, start)
         IN  IF start # -1 /\ end # -1
             THEN Some(Strip(Slice(rc, start, end)))
             ELSE None
    ELSE None

\* FenceCandidate opening the block at any three backticks
FenceCandidateAnyFence(rc) ==
    IF StartsWith(rc, Ticks)
    THEN LET js == Strip(Slice(rc, Len(Ticks), Len(rc)))
         IN  IF EndsWith(js, Ticks)
             THEN Some(Strip(Slice(js, 0, Len(js) - Len(Ticks))))
             ELSE Some(js)
    ELSE IF Contains(rc, Ticks)
    THEN LET start == Find(rc, Ticks, 0) + Len(Ticks)
             end   == Find(rc, Ticks, start)
         IN  IF start # -1 /\ end # -1
             THEN Some(Strip(Slice(rc, start, end)))
             ELSE None
    ELSE None

\* the JSON candidate cut out of a reply that is not JSON as a whole
FenceCandidate(rc) ==
    IF StartsWith(rc, Marker)
    THEN LET js == Strip(Slice(rc, Len(Marker), Len(rc)))
         IN  IF EndsWith(js, Ticks)
             THEN Some(Strip(Slice(js, 0, Len(js) - Len(Ticks))))
             ELSE Some(js)
    ELSE IF Contains(rc, Marker)
    THEN LET start == Find(rc, Marker, 0) + Len(Marker)
             end   == Find(rc, Ticks, start)
         IN  IF start # -1 /\ end # -1
             THEN Some(Strip(Slice(rc, start, end)))
             ELSE None
    ELSE None

\* `if json_string:`
HasCandidate(js) == js # None /\ js[1] # <<>>

\* IsTopLevelObject taking a list for an object too
IsDictOrList(v) == IsDict(v) \/ IsList(v)

\* `isinstance(extracted_data, dict)`
IsTopLevelObject(v) == IsDict(v)

\* `if extracted_data:` in the caller
CallerAccepts(data) == data # None /\ Truthy(data[1])

---------------------------------------------------------------------------
\* The upload, signed-URL and OCR calls and their caches

Names == {"a.pdf", "b.pdf"}
Contents == {"A", "B"}

\* what st.file_uploader can hand to the script: a name and the bytes
Files == [name : Names, content : Contents]

\* uploaded_pdf.id: the id the service gives to the uploaded bytes
UploadedId(file_content) == [file |-> file_content]

\* signed_url.url: the URL of the file with that id
SignedUrl(id) == [file |-> id.file]

\* ocr_response: the pages the service read in the document behind the URL
OcrResponse(url, n) == [file |-> url.file, pages |-> n]

\* @st.cache_data keys a call on the arguments whose names do not start
\* with an underscore
UploadKey(file_content, file_name) == <<file_name>>
SignedUrlKey(id) == <<>>
OcrKey(url) == <<>>

\* a cached function called with a key: the stored result, or one of the
\* results a fresh call can return
Outcomes(cache, key, fresh) == IF key \in DOMAIN cache THEN {cache[key]} ELSE fresh

\* the cache after the call returned r
Store(cache, key, r) ==
    [k \in DOMAIN cache \cup {key} |-> IF k = key THEN r ELSE cache[k]]

NoCache == [k \in {} |-> None]

\* `if file_id:`, `if signed_url:`
Obtained(v) == v # None

\* OcrUsable without the test of the pages
OcrUsableAnyPages(r) == r # None

\* `if ocr_result and ocr_result.pages:`
OcrUsable(r) == r # None /\ r[1].pages > 0

\* the stages of a run, in the order of the script
StageOrder == <<"upload", "signed_url", "ocr", "llm", "render", "download">>

\* the first file of the uploader, its one-page OCR obtained and cached
FirstFile == [name |-> "a.pdf", content |-> "A"]

\* Spec starts where the script calls extract_info_with_llm for FirstFile
Init ==
    /\ pc = "llm"
    /\ uploaded_file = Some(FirstFile)
    /\ file_id = Some(UploadedId("A"))
    /\ signed_url = Some(SignedUrl(UploadedId("A")))
    /\ ocr_result = Some(OcrResponse(SignedUrl(UploadedId("A")), 1))
    /\ upload_cache = Store(NoCache, UploadKey("A", "a.pdf"), Some(UploadedId("A")))
    /\ url_cache = Store(NoCache, SignedUrlKey(UploadedId("A")),
                         Some(SignedUrl(UploadedId("A"))))
    /\ ocr_cache = Store(NoCache, OcrKey(SignedUrl(UploadedId("A"))),
                         Some(OcrResponse(SignedUrl(UploadedId("A")), 1)))
    /\ stages = <<"upload", "signed_url", "ocr">>
    /\ wrap = "none"
    /\ obj = None
    /\ content = <<>>
    /\ response_content = <<>>
    /\ json_string = None
    /\ extracted_data = None
    /\ log = <<>>
    /\ st_text = None
    /\ info_df = None
    /\ results_df = None
    /\ st_json = None
    /\ download_button = FALSE

UI == <<log, st_text, info_df, results_df, st_json, download_button>>

\* the file, the results of the three calls, and the caches
front == <<uploaded_file, file_id, signed_url, ocr_result,
           upload_cache, url_cache, ocr_cache>>

\* the chat model's reply arrives and is stripped
Reply(w, o, text) ==
    /\ pc = "llm"
    /\ wrap' = w
    /\ obj' = o
    /\ content' = text
    /\ response_content' = Strip(text)
    /\ extracted_data' = None
    /\ json_string' = None
    /\ pc' = "direct"
    /\ stages' = Append(stages, "llm")
    /\ UNCHANGED UI
    /\ UNCHANGED front

ChatResponse ==
    \/ \E w \in Wrappers, o \in Objects : Reply(w, Some(o), Wrap(w, Dumps(o)))
    \/ \E text \in RawTexts : Reply("raw", None, text)

\* json.loads(response_content)
DirectParse ==
    /\ pc = "direct"
    /\ LET d == Loads(response_content)
       IN  IF d.ok
           THEN /\ extracted_data' = Some(d.val)
                /\ pc' = "validate"
                /\ log' = log
           ELSE /\ extracted_data' = extracted_data
                /\ pc' = "fence"
                /\ log' = Append(log, "SearchingFence")
    /\ UNCHANGED <<wrap, obj, content, response_content, json_string, st_text,
                   info_df, results_df, st_json, download_button>>
    /\ UNCHANGED <<front, stages>>

FenceSearch ==
    /\ pc = "fence"
    /\ json_string' = FenceCandidate(response_content)
    /\ pc' = "fence_parse"
    /\ UNCHANGED <<wrap, obj, content, response_content, extracted_data>>
    /\ UNCHANGED UI
    /\ UNCHANGED <<front, stages>>

\* json.loads(json_string), or the two failures of the fenced path
FenceParse ==
    /\ pc = "fence_parse"
    /\ IF HasCandidate(json_string)
       THEN LET d == Loads(json_string[1])
            IN  IF d.ok
                THEN /\ extracted_data' = Some(d.val)
                     /\ pc' = "validate"
                     /\ UNCHANGED <<log, st_text>>
                ELSE /\ log' = Append(log, "InvalidJsonInFence")
                     /\ st_text' = Some(response_content)
                     /\ extracted_data' = None
                     /\ pc' = "returned"
       ELSE /\ log' = Append(log, "NoJsonFound")
            /\ st_text' = Some(response_content)
            /\ extracted_data' = None
            /\ pc' = "returned"
    /\ UNCHANGED <<wrap, obj, content, response_content, json_string, info_df,
                   results_df, st_json, download_button>>
    /\ UNCHANGED <<front, stages>>

\* ValidatedReturn without the `return None` of the failed check
ValidatedReturnAlways(data) == data

\* what the function returns once the reply parsed: the value, or None for
\* a value that is not a dict
ValidatedReturn(data) == IF IsTopLevelObject(data[1]) THEN data ELSE None

\* the check of the top-level value, and the return to the caller
Validate ==
    /\ pc = "validate"
    /\ IF IsTopLevelObject(extracted_data[1])
       THEN UNCHANGED <<log, st_text>>
       ELSE /\ log' = Append(log, "NotAnObject")
            /\ st_text' = Some(response_content)
    /\ extracted_data' = ValidatedReturn(extracted_data)
    /\ pc' = "returned"
    /\ UNCHANGED <<wrap, obj, content, response_content, json_string, info_df,
                   results_df, st_json, download_button>>
    /\ UNCHANGED <<front, stages>>

---------------------------------------------------------------------------
\* The script's rendering of the record

Sections == {"report_info", "client_info", "sample_info"}

\* the rows of report_client_sample_info: label, section, leaf
InfoFields ==
    << <<"Laboratoire", "report_info", "lab_name">>,
       <<"ID Rapport", "report_info", "report_id">>,
       <<"Date d'emission", "report_info", "issue_date">>,
       <<"Date de Validation", "report_info", "validation_date">>,
       <<"Validateur", "report_info", "validator_name">>,
       <<"Nom Client", "client_info", "client_name">>,
       <<"Adresse Client", "client_info", "client_address">>,
       <<"ID Client", "client_info", "client_id">>,
       <<"Nom Produit", "sample_info", "product_name">>,
       <<"Lot", "sample_info", "lot_number">>,
       <<"ID Echantillon", "sample_info", "sample_id">>,
       <<"Date reception", "sample_info", "date_received">>,
       <<"Date analyse", "sample_info", "date_analyzed">>,
       <<"Date collecte", "sample_info", "date_collected">>,
       <<"Format Produit", "sample_info", "product_format">>,
       <<"DLC/DLUO", "sample_info", "best_before_date">>,
       <<"Fournisseur", "sample_info", "supplier">>,
       <<"Code EAN", "sample_info", "ean_code">>,
       <<"Conclusion Generale", "", "conclusion">> >>

\* extracted_data.get(section, {})
SectionOf(data, sec) == Get(data, K(sec), JObj(<<>>))

\* .get on a value that is not a dict raises AttributeError
RaisesAttributeError(data) ==
    \/ ~IsDict(data)
    \/ \E sec \in Sections : ~IsDict(SectionOf(data, sec))

\* extracted_data.get(section, {}).get(leaf), or extracted_data.get(leaf)
LeafValue(data, sec, leaf) ==
    IF sec = "" THEN Get(data, K(leaf), JNull)
    ELSE Get(SectionOf(data, sec), K(leaf), JNull)

\* value if value is not None else "N/A"
InfoValue(v) == IF v = JNull THEN Str("N/A") ELSE v

\* info_df: one row <<Champ, Valeur>> per field
InfoTable(data) ==
    [i \in 1..Len(InfoFields) |->
        <<InfoFields[i][1],
          InfoValue(LeafValue(data, InfoFields[i][2], InfoFields[i][3]))>>]

\* isinstance(analysis_results, list) and all(isinstance(item, dict) ...)
IsListOfDicts(v) == IsList(v) /\ \A i \in 1..Len(v.a) : IsDict(v.a[i])

\* a cell after reindex(columns=display_cols).fillna(''): a missing key and
\* a None both show as the empty string
Cell(row, col) ==
    LET v == Get(row, K(col), JNull)
    IN  IF v = JNull THEN JStr(<<>>) ELSE v

\* ResultsDf with the rows in reverse order
ResultsDfReversed(rows) ==
    [i \in 1..Len(rows) |->
        [j \in 1..Len(display_cols) |-> Cell(rows[Len(rows) + 1 - i], display_cols[j])]]

\* results_df: one row per element, in the order of the list
ResultsDf(rows) ==
    [i \in 1..Len(rows) |-> [j \in 1..Len(display_cols) |-> Cell(rows[i], display_cols[j])]]

\* `if extracted_data:` and its else branch
CallerTest ==
    /\ pc = "returned"
    /\ IF CallerAccepts(extracted_data)
       THEN /\ pc' = "render_info"
            /\ log' = log
       ELSE /\ pc' = "done"
            /\ log' = Append(log, "ExtractionFailed")
    /\ UNCHANGED <<wrap, obj, content, response_content, json_string,
                   extracted_data, st_text, info_df, results_df, st_json,
                   download_button>>
    /\ UNCHANGED <<front, stages>>

\* the table of report, client and sample fields
RenderInfo ==
    /\ pc = "render_info"
    /\ IF RaisesAttributeError(extracted_data[1])
       THEN /\ log' = Append(log, "AttributeError")
            /\ info_df' = info_df
            /\ pc' = "done"
       ELSE /\ info_df' = Some(InfoTable(extracted_data[1]))
            /\ log' = log
            /\ pc' = "render_results"
    /\ UNCHANGED <<wrap, obj, content, response_content, json_string,
                   extracted_data, st_text, results_df, st_json, download_button>>
    /\ stages' = Append(stages, "render")
    /\ UNCHANGED front

\* the table of analysis results
RenderResults ==
    /\ pc = "render_results"
    /\ LET analysis_results == Get(extracted_data[1], K("analysis_results"), JNull)
       IN  IF Truthy(analysis_results)
           THEN IF IsListOfDicts(analysis_results)
                THEN /\ results_df' = Some(ResultsDf(analysis_results.a))
                     /\ pc' = "excel"
                     /\ UNCHANGED <<log, st_json>>
                ELSE /\ log' = Append(log, "MalformedResultsArray")
                     /\ st_json' = Some(analysis_results)
                     /\ pc' = "done"
                     /\ results_df' = results_df
           ELSE /\ log' = Append(log, "NoResults")
                /\ pc' = "done"
                /\ UNCHANGED <<results_df, st_json>>
    /\ UNCHANGED <<wrap, obj, content, response_content, json_string,
                   extracted_data, st_text, info_df, download_button>>
    /\ UNCHANGED <<front, stages>>

\* to_excel and the download button; the Excel writer may raise
ExcelDownload ==
    /\ pc = "excel"
    /\ \E written \in BOOLEAN :
         IF written
         THEN /\ download_button' = TRUE
              /\ log' = log
              /\ stages' = Append(stages, "download")
         ELSE /\ download_button' = download_button
              /\ log' = Append(log, "ExcelError")
              /\ stages' = stages
    /\ pc' = "done"
    /\ UNCHANGED <<wrap, obj, content, response_content, json_string,
                   extracted_data, st_text, info_df, results_df, st_json>>
    /\ UNCHANGED front

\* the next run of the script with the same file starts from a blank page
\* and comes to the chat call again, the three cached calls answering as
\* before
Rerun ==
    /\ pc = "done"
    /\ pc' = "llm"
    /\ wrap' = "none"
    /\ obj' = None
    /\ content' = <<>>
    /\ response_content' = <<>>
    /\ json_string' = None
    /\ extracted_data' = None
    /\ log' = <<>>
    /\ st_text' = None
    /\ info_df' = None
    /\ results_df' = None
    /\ st_json' = None
    /\ download_button' = FALSE
    /\ stages' = <<"upload", "signed_url", "ocr">>
    /\ UNCHANGED front

Next ==
    \/ ChatResponse
    \/ DirectParse
    \/ FenceSearch
    \/ FenceParse
    \/ Validate
    \/ CallerTest
    \/ RenderInfo
    \/ RenderResults
    \/ ExcelDownload
    \/ Rerun

Spec == Init /\ [][Next]_vars

---------------------------------------------------------------------------
\* The whole run of the script, over the runs of one server process

\* the variables of extract_info_with_llm and of the page
blank ==
    /\ wrap = "none"
    /\ obj = None
    /\ content = <<>>
    /\ response_content = <<>>
    /\ json_string = None
    /\ extracted_data = None
    /\ log = <<>>
    /\ st_text = None
    /\ info_df = None
    /\ results_df = None
    /\ st_json = None
    /\ download_button = FALSE

\* a server process that has run nothing yet
InitRun ==
    /\ pc = "start"
    /\ blank
    /\ uploaded_file = None
    /\ file_id = None
    /\ signed_url = None
    /\ ocr_result = None
    /\ upload_cache = NoCache
    /\ url_cache = NoCache
    /\ ocr_cache = NoCache
    /\ stages = <<>>

parse == <<wrap, obj, content, response_content, json_string, extracted_data>>
caches == <<upload_cache, url_cache, ocr_cache>>

\* st.file_uploader and `if uploaded_file:`
FileUploader ==
    /\ pc = "start"
    /\ \/ \E f \in Files :
            /\ uploaded_file' = Some(f)
            /\ pc' = "upload"
            /\ log' = log
       \/ /\ uploaded_file' = None
          /\ pc' = "done"
          /\ log' = Append(log, "PleaseUpload")
    /\ UNCHANGED <<file_id, signed_url, ocr_result, caches, stages, parse>>
    /\ UNCHANGED <<st_text, info_df, results_df, st_json, download_button>>

\* file_id = upload_pdf_to_mistral(file_content, uploaded_file.name)
UploadPdf ==
    /\ pc = "upload"
    /\ LET file_content == uploaded_file[1].content
           key == UploadKey(file_content, uploaded_file[1].name)
       IN  \E r \in Outcomes(upload_cache, key, {None, Some(UploadedId(file_content))}) :
              /\ file_id' = r
              /\ upload_cache' = Store(upload_cache, key, r)
              /\ IF Obtained(r)
                 THEN pc' = "signed_url" /\ log' = log
                 ELSE pc' = "done" /\ log' = Append(log, "UploadError")
    /\ stages' = Append(stages, "upload")
    /\ UNCHANGED <<uploaded_file, signed_url, ocr_result, url_cache, ocr_cache, parse>>
    /\ UNCHANGED <<st_text, info_df, results_df, st_json, download_button>>

\* signed_url = get_signed_url(file_id)
GetSignedUrl ==
    /\ pc = "signed_url"
    /\ LET key == SignedUrlKey(file_id[1])
       IN  \E r \in Outcomes(url_cache, key, {None, Some(SignedUrl(file_id[1]))}) :
              /\ signed_url' = r
              /\ url_cache' = Store(url_cache, key, r)
              /\ IF Obtained(r)
                 THEN pc' = "ocr" /\ log' = log
                 ELSE pc' = "done" /\ log' = Append(log, "SignedUrlError")
    /\ stages' = Append(stages, "signed_url")
    /\ UNCHANGED <<uploaded_file, file_id, ocr_result, upload_cache, ocr_cache, parse>>
    /\ UNCHANGED <<st_text, info_df, results_df, st_json, download_button>>

\* ocr_result = call_ocr_api(signed_url) and the test of its pages
CallOcr ==
    /\ pc = "ocr"
    /\ LET key == OcrKey(signed_url[1])
           fresh == {None} \cup {Some(OcrResponse(signed_url[1], n)) : n \in 0..MaxPages}
       IN  \E r \in Outcomes(ocr_cache, key, fresh) :
              /\ ocr_result' = r
              /\ ocr_cache' = Store(ocr_cache, key, r)
              /\ IF OcrUsable(r)
                 THEN pc' = "llm" /\ log' = log
                 ELSE /\ pc' = "done"
                      /\ log' = Append(log, IF r = None THEN "OcrFailed" ELSE "NoPages")
    /\ stages' = Append(stages, "ocr")
    /\ UNCHANGED <<uploaded_file, file_id, signed_url, upload_cache, url_cache, parse>>
    /\ UNCHANGED <<st_text, info_df, results_df, st_json, download_button>>

\* the replies of the chat model the runs are followed with
RunObjects ==
    { JObj(<<>>),
      JObj(<< <<K("conclusion"), Str("Conforme")>> >>),
      JObj(<< <<K("report_info"), Str("Labo")>> >>),
      JObj(<< <<K("analysis_results"), Str("not-a-list")>> >>),
      JObj(<< <<K("analysis_results"),
                JArr(<< JObj(<< <<K("parameter"), Str("Humidite")>> >>) >>)>> >>) }

RunTexts == { Dumps(JArr(<<>>)), <<"Thanks">> }

ChatResponseRun ==
    \/ \E o \in RunObjects : Reply("direct", Some(o), Dumps(o))
    \/ \E text \in RunTexts : Reply("raw", None, text)

\* client.chat.completions.create raises: extract_info_with_llm reports and returns None
ChatRaises ==
    /\ pc = "llm"
    /\ extracted_data' = None
    /\ log' = Append(log, "LlmError")
    /\ pc' = "returned"
    /\ stages' = Append(stages, "llm")
    /\ UNCHANGED <<wrap, obj, content, response_content, json_string>>
    /\ UNCHANGED <<st_text, info_df, results_df, st_json, download_button>>
    /\ UNCHANGED front

\* the next run of the script: a blank page and fresh locals; the caches
\* of st.cache_data live as long as the server process
NewRun ==
    /\ pc = "done"
    /\ pc' = "start"
    /\ wrap' = "none"
    /\ obj' = None
    /\ content' = <<>>
    /\ response_content' = <<>>
    /\ json_string' = None
    /\ extracted_data' = None
    /\ log' = <<>>
    /\ st_text' = None
    /\ info_df' = None
    /\ results_df' = None
    /\ st_json' = None
    /\ download_button' = FALSE
    /\ uploaded_file' = None
    /\ file_id' = None
    /\ signed_url' = None
    /\ ocr_result' = None
    /\ stages' = <<>>
    /\ UNCHANGED caches

NextRun ==
    \/ FileUploader
    \/ UploadPdf
    \/ GetSignedUrl
    \/ CallOcr
    \/ ChatResponseRun
    \/ ChatRaises
    \/ DirectParse
    \/ FenceSearch
    \/ FenceParse
    \/ Validate
    \/ CallerTest
    \/ RenderInfo
    \/ RenderResults
    \/ ExcelDownload
    \/ NewRun

SpecRun == InitRun /\ [][NextRun]_vars

---------------------------------------------------------------------------
\* Properties

\* extract_info_with_llm has returned to the script
Returned == pc \in {"returned", "render_info", "render_results", "excel", "done"}

Logged(kind) == \E i \in 1..Len(log) : log[i] = kind

InRange(ks, k) == \E i \in 1..Len(ks) : ks[i] = k

\* a leaf of the schema: "string or null"
IsLeaf(v) == v.t \in {"str", "null"}

\* every key of dict d is one of ks and holds a leaf
LeavesOnly(d, ks) ==
    /\ IsDict(d)
    /\ \A i \in 1..Len(d.o) :
         /\ Len(d.o[i][1]) = 1
         /\ InRange(ks, d.o[i][1][1])
         /\ IsLeaf(d.o[i][2])

SectionKeys(sec) ==
    CASE sec = "report_info" -> report_info_keys
      [] sec = "client_info" -> client_info_keys
      [] sec = "sample_info" -> sample_info_keys

\* o is an object of the schema: each key is a key of json_schema and holds
\* what the schema gives it, every section and every leaf optional
MatchesSchema(o) ==
    /\ IsDict(o)
    /\ \A i \in 1..Len(o.o) :
         LET k == o.o[i][1]
             v == o.o[i][2]
         IN  \/ \E sec \in Sections : k = K(sec) /\ LeavesOnly(v, SectionKeys(sec))
             \/ /\ k = K("analysis_results")
                /\ IsList(v)
                /\ \A r \in 1..Len(v.a) : LeavesOnly(v.a[r], display_cols)
             \/ k = K("conclusion") /\ IsLeaf(v)

\* no message of a failed extraction or rendering is on the page
NoError ==
    /\ ~Logged("NoJsonFound")
    /\ ~Logged("InvalidJsonInFence")
    /\ ~Logged("NotAnObject")
    /\ ~Logged("ExtractionFailed")
    /\ ~Logged("AttributeError")
    /\ ~Logged("MalformedResultsArray")

\* C1: round trip.  For every object O of the schema, the empty object
\* included, the reply json.dumps(O) is parsed with success and the record
\* the script works on equals O.
C1_RoundTrip ==
    (pc = "done" /\ wrap = "direct" /\ obj # None /\ MatchesSchema(obj[1]))
        => (extracted_data = obj /\ NoError)

\* C2: fence stripping.  For every JSON object O, the reply made of the
\* opening marker, a newline, json.dumps(O), a newline and the closing
\* marker gives the record that json.dumps(O) parsed directly gives.
C2_FenceStripping ==
    (Returned /\ wrap = "fenced" /\ obj # None)
        => LET d == Loads(Strip(Dumps(obj[1])))
           IN  /\ d.ok
               /\ IsDict(d.val)
               /\ extracted_data = Some(d.val)
               /\ ~Logged("NoJsonFound")
               /\ ~Logged("InvalidJsonInFence")
               /\ ~Logged("NotAnObject")

\* a fenced object of several keys went through the fence search and was
\* rendered
C2_Witness ==
    /\ pc = "done"
    /\ wrap = "fenced"
    /\ obj # None
    /\ Len(obj[1].o) > 1
    /\ json_string = Some(Dumps(obj[1]))
    /\ extracted_data = obj
    /\ info_df # None

\* the candidate the specification describes: the text after the first
\* opening marker up to the next three backticks, stripped
MarkerEnd(rc) == Find(rc, Marker, 0) + Len(Marker)

HasClosedFence(rc) == Contains(rc, Marker) /\ Find(rc, Ticks, MarkerEnd(rc)) # -1

SpecCandidate(rc) == Strip(Slice(rc, MarkerEnd(rc), Find(rc, Ticks, MarkerEnd(rc))))

\* an object none of whose strings holds three backticks
NoTicksInside(o) == ~Contains(Dumps(o), Ticks)

\* C3: fence extraction.  For every reply that is not JSON as a whole and
\* holds the opening marker, at its start or further on, the candidate is
\* the text between the first opening marker and the next three backticks,
\* stripped; a fenced object with commentary before and after the block is
\* parsed to that object.
C3_FenceExtraction ==
    /\ (pc = "fence_parse" /\ HasClosedFence(response_content))
          => json_string = Some(SpecCandidate(response_content))
    /\ (Returned /\ wrap \in {"lead", "lead_trail", "trail"} /\ obj # None
            /\ NoTicksInside(obj[1]))
          => extracted_data = obj

\* C4: NoJsonFound.  For every reply, the empty one included, that is not
\* JSON as a whole and does not hold the opening marker, the function
\* reports that no JSON was found, reports no other failure and returns no
\* record.
C4_NoJsonFound ==
    (Returned /\ ~Loads(content).ok /\ ~Contains(content, Marker))
        => /\ Logged("NoJsonFound")
           /\ ~Logged("InvalidJsonInFence")
           /\ ~Logged("NotAnObject")
           /\ extracted_data = None
           /\ st_text = Some(response_content)

\* a reply with three backticks but no opening marker was refused
C4_Witness ==
    /\ pc = "done"
    /\ ~Loads(content).ok
    /\ ~Contains(content, Marker)
    /\ Contains(content, Ticks)
    /\ Logged("NoJsonFound")

\* the empty reply was refused
C4_WitnessEmpty == pc = "done" /\ content = <<>> /\ Logged("NoJsonFound")

\* C5: InvalidJsonInFence.  For every reply in which a block opened by the
\* marker is located and whose extracted candidate, the empty one included,
\* is not JSON, the function reports invalid JSON in the fence, not that no
\* JSON was found, and shows the raw reply; for the marker, a newline,
\* "{not valid json", a newline and the closing marker the candidate is
\* "{not valid json".
C5_InvalidJsonInFence ==
    /\ (Returned /\ ~Loads(response_content).ok /\ HasClosedFence(response_content)
           /\ json_string # None /\ ~Loads(json_string[1]).ok)
          => /\ Logged("InvalidJsonInFence")
             /\ ~Logged("NoJsonFound")
             /\ st_text = Some(response_content)
    /\ (Returned /\ content = Fenced(NotValidJson))
          => json_string = Some(NotValidJson)

\* the JSON value the function parsed, directly or from the candidate
ParsedValue ==
    LET d == Loads(response_content)
    IN  IF d.ok THEN Some(d.val)
        ELSE IF HasCandidate(json_string) /\ Loads(json_string[1]).ok
        THEN Some(Loads(json_string[1]).val)
        ELSE None

NothingRendered ==
    /\ info_df = None
    /\ results_df = None
    /\ st_json = None
    /\ download_button = FALSE

\* C6: NotAnObject.  For every reply whose JSON, parsed directly or from
\* the candidate, is valid but is not a mapping at the top level, the
\* function reports that the value is not an object and returns no record.
C6_NotAnObject ==
    (Returned /\ ParsedValue # None /\ ~IsDict(ParsedValue[1]))
        => /\ Logged("NotAnObject")
           /\ ~Logged("NoJsonFound")
           /\ ~Logged("InvalidJsonInFence")
           /\ extracted_data = None
           /\ NothingRendered

\* an array inside a fenced block was refused
C6_Witness ==
    /\ pc = "done"
    /\ json_string # None
    /\ ParsedValue # None
    /\ IsList(ParsedValue[1])
    /\ ParsedValue[1].a # <<>>
    /\ Logged("NotAnObject")

\* C7: MalformedResultsArray.  For every parsed mapping whose key
\* analysis_results is present with a value that is not a list of mappings,
\* falsy or not, the outcome is the error of the unexpected format, not a
\* table and not the warning that there are no results.
C7_MalformedResultsArray ==
    (pc = "done" /\ info_df # None
        /\ HasKey(extracted_data[1], K("analysis_results"))
        /\ Get(extracted_data[1], K("analysis_results"), JNull) # JNull
        /\ ~IsListOfDicts(Get(extracted_data[1], K("analysis_results"), JNull)))
        => /\ Logged("MalformedResultsArray")
           /\ ~Logged("NoResults")
           /\ results_df = None

ParseFailed ==
    Logged("NoJsonFound") \/ Logged("InvalidJsonInFence") \/ Logged("NotAnObject")

FailureKinds ==
    {"NoJsonFound", "InvalidJsonInFence", "NotAnObject", "MalformedResultsArray"}

OneFailureKind == Cardinality({k \in FailureKinds : Logged(k)}) <= 1

C8_WitnessParse ==
    /\ pc = "done"
    /\ Logged("InvalidJsonInFence")
    /\ Logged("ExtractionFailed")
    /\ NothingRendered

\* the rows of the object the chat model sent
SentRows == Get(obj[1], K("analysis_results"), JNull).a

\* C9: row order.  For every reply parsed with success whose
\* analysis_results is a list of 0, 1 or more mappings, the rows of the
\* record are the rows sent, in their order, and the table built from them
\* has one row per row sent, in that order; the table is built for every
\* list that is not empty.
C9_RowOrder ==
    (pc = "done" /\ obj # None /\ extracted_data # None
        /\ HasKey(obj[1], K("analysis_results"))
        /\ IsListOfDicts(Get(obj[1], K("analysis_results"), JNull)))
        => /\ Get(extracted_data[1], K("analysis_results"), JNull) = JArr(SentRows)
           /\ results_df # None =>
                /\ Len(results_df[1]) = Len(SentRows)
                /\ \A i \in 1..Len(SentRows) : \A j \in 1..Len(display_cols) :
                     LET v == Get(SentRows[i], K(display_cols[j]), JNull)
                     IN  results_df[1][i][j] = IF v = JNull THEN JStr(<<>>) ELSE v
           /\ (info_df # None /\ SentRows # <<>>) => results_df # None
           /\ SentRows = <<>> => results_df = None

\* a table of two different rows was built from a fenced reply with
\* commentary around it
C9_Witness ==
    /\ pc = "done"
    /\ wrap = "lead_trail"
    /\ results_df # None
    /\ Len(results_df[1]) >= 2
    /\ results_df[1][1] # results_df[1][2]
    /\ download_button

\* an empty list of rows was parsed and no table was built
C9_WitnessEmpty ==
    /\ pc = "done"
    /\ obj # None
    /\ extracted_data # None
    /\ HasKey(obj[1], K("analysis_results"))
    /\ Get(extracted_data[1], K("analysis_results"), JNull) = JArr(<<>>)
    /\ Logged("NoResults")

\* every schema key the mapping supplies holds what the schema gives it;
\* keys outside the schema are free
WellTyped(o) ==
    /\ IsDict(o)
    /\ \A sec \in Sections :
         LET v == SectionOf(o, sec)
         IN  IsDict(v) /\ \A i \in 1..Len(v.o) : IsLeaf(v.o[i][2])
    /\ LET ar == Get(o, K("analysis_results"), JArr(<<>>))
       IN  /\ IsListOfDicts(ar)
           /\ \A r \in 1..Len(ar.a) : \A i \in 1..Len(ar.a[r].o) : IsLeaf(ar.a[r].o[i][2])
    /\ IsLeaf(Get(o, K("conclusion"), JNull))

\* C10: optional fields never error.  For every parsed mapping, a schema
\* field that is not supplied (a section, a leaf, conclusion,
\* analysis_results, a key of a row) is taken as absent and causes no
\* error, and keys outside the schema are ignored.
C10_OptionalFieldsNeverError ==
    (pc = "done" /\ ParsedValue # None /\ WellTyped(ParsedValue[1]))
        => /\ NoError
           /\ info_df = Some(InfoTable(ParsedValue[1]))

\* every leaf of record d that the schema names is a string or null; a
\* leaf that is not supplied reads as null
LeavesAreStringOrNull(d) ==
    /\ \A i \in 1..Len(InfoFields) :
         IsLeaf(LeafValue(d, InfoFields[i][2], InfoFields[i][3]))
    /\ LET ar == Get(d, K("analysis_results"), JNull)
       IN  IsListOfDicts(ar) =>
             \A r \in 1..Len(ar.a) : \A j \in 1..Len(display_cols) :
                 IsLeaf(Get(ar.a[r], K(display_cols[j]), JNull))

\* the leaves the object sent does not supply read as null in record d
AbsentLeavesAreNull(sent, d) ==
    \A i \in 1..Len(InfoFields) :
        LET sec  == InfoFields[i][2]
            leaf == InfoFields[i][3]
            supplied == IF sec = "" THEN HasKey(sent, K(leaf))
                        ELSE HasKey(SectionOf(sent, sec), K(leaf))
        IN  (~supplied /\ ~RaisesAttributeError(sent)) => LeafValue(d, sec, leaf) = JNull

\* C11: leaf types.  In every record the function returns, every leaf
\* (each field of report_info, client_info and sample_info, each column of
\* each row of analysis_results, and conclusion) is a string or null, never
\* a number, a boolean or a nested object; a leaf that is absent is null in
\* the record, never the empty string.
C11_LeafTypes ==
    (Returned /\ extracted_data # None)
        => /\ LeavesAreStringOrNull(extracted_data[1])
           /\ obj # None => AbsentLeavesAreNull(obj[1], extracted_data[1])

IsPrefix(s, t) == Len(s) <= Len(t) /\ \A i \in 1..Len(s) : s[i] = t[i]

\* the stage has run in the current run of the script
Ran(stage) == \E i \in 1..Len(stages) : stages[i] = stage

\* the stage each reported failure belongs to
FailedStage ==
    [ UploadError |-> 1, SignedUrlError |-> 2, OcrFailed |-> 3, NoPages |-> 3,
      LlmError |-> 4, NoJsonFound |-> 4, InvalidJsonInFence |-> 4,
      NotAnObject |-> 4, ExtractionFailed |-> 4, AttributeError |-> 5,
      MalformedResultsArray |-> 5, NoResults |-> 5, ExcelError |-> 5 ]

\* C12: stage gating.  In every run the stages occur in the order upload,
\* signed URL, OCR, chat extraction, rendering, download offer, each one
\* only after every earlier one returned a success value: the signed URL
\* only with a file id, the OCR only with a signed URL, the chat call only
\* with an OCR result of at least one page, the rendering only with a
\* returned record, the download only with a non-empty list of mappings as
\* analysis_results and a written workbook; and once a stage has reported
\* a failure no later stage runs.
C12_StageGating ==
    /\ IsPrefix(stages, StageOrder)
    /\ Ran("signed_url") => file_id # None
    /\ Ran("ocr") => signed_url # None
    /\ Ran("llm") => ocr_result # None /\ ocr_result[1].pages >= 1
    /\ Ran("render") => extracted_data # None /\ IsDict(extracted_data[1])
    /\ Ran("download") <=> download_button
    /\ download_button =>
          LET ar == Get(extracted_data[1], K("analysis_results"), JNull)
          IN  /\ IsListOfDicts(ar)
              /\ Len(ar.a) > 0
              /\ results_df = Some(ResultsDf(ar.a))
              /\ ~Logged("ExcelError")
    /\ \A kind \in DOMAIN FailedStage :
          Logged(kind) => Len(stages) <= FailedStage[kind]

\* a run that went through the six stages
C12_Witness == pc = "done" /\ stages = StageOrder /\ download_button

\* a run that an OCR result without pages ended
C12_WitnessNoPages ==
    pc = "done" /\ ocr_result # None /\ ocr_result[1].pages = 0 /\ Len(stages) = 3

\* C13: cache correctness.  Whatever files were uploaded before in the
\* server process, the file id, the signed URL and the OCR result the run
\* uses are those of the content of the file uploaded now.
C13_CacheCorrectness ==
    uploaded_file # None =>
        /\ file_id # None => file_id[1].file = uploaded_file[1].content
        /\ signed_url # None => signed_url[1].file = uploaded_file[1].content
        /\ ocr_result # None => ocr_result[1].file = uploaded_file[1].content

=============================================================================
